---- MODULE Spec2Model ----
(***************************************************************************)
(* Model of squareroot.py: ConvergenceMonitor and                          *)
(* OverEngineeredSquareRootSolver (Newton / Babylonian square root).       *)
(*                                                                         *)
(* Python floats are IEEE 754 binary64 values.  They are modelled bit for  *)
(* bit: a float is a record [k, s, m, e] of kind, sign, 53-bit significand *)
(* and exponent, the significand held as a little-endian sequence of       *)
(* 15-bit limbs, and every arithmetic operation rounds to nearest, ties to *)
(* even, with gradual underflow and overflow to infinity.                  *)
(***************************************************************************)
EXTENDS Integers, Sequences, FiniteSets

(***************************************************************************)
(* Natural numbers of any size: little-endian limb sequences, no leading   *)
(* zero limb, <<>> for 0.                                                  *)
(***************************************************************************)
LimbBits == 15
Base == 2^LimbBits

RECURSIVE BNorm(_)
BNorm(a) ==
    IF a = <<>> THEN a
    ELSE IF a[Len(a)] = 0 THEN BNorm(SubSeq(a, 1, Len(a) - 1)) ELSE a

RECURSIVE BFromInt(_)
BFromInt(n) == IF n = 0 THEN <<>> ELSE <<n % Base>> \o BFromInt(n \div Base)

RECURSIVE BAddC(_, _, _)
BAddC(a, b, c) ==
    IF a = <<>> /\ b = <<>> THEN (IF c = 0 THEN <<>> ELSE <<c>>)
    ELSE LET x == IF a = <<>> THEN 0 ELSE Head(a)
             y == IF b = <<>> THEN 0 ELSE Head(b)
             t == x + y + c
         IN  <<t % Base>> \o BAddC(IF a = <<>> THEN a ELSE Tail(a),
                                   IF b = <<>> THEN b ELSE Tail(b),
                                   t \div Base)

BAdd(a, b) == BAddC(a, b, 0)

\* a - b for a >= b
RECURSIVE BSubC(_, _, _)
BSubC(a, b, c) ==
    IF a = <<>> THEN <<>>
    ELSE LET y == IF b = <<>> THEN 0 ELSE Head(b)
             t == Head(a) - y - c
         IN  <<t % Base>> \o BSubC(Tail(a),
                                   IF b = <<>> THEN b ELSE Tail(b),
                                   IF t < 0 THEN 1 ELSE 0)

BSub(a, b) == BNorm(BSubC(a, b, 0))

\* -1, 0, 1 as a < b, a = b, a > b
RECURSIVE BCmpFrom(_, _, _)
BCmpFrom(a, b, i) ==
    IF i = 0 THEN 0
    ELSE IF a[i] < b[i] THEN -1
    ELSE IF a[i] > b[i] THEN 1
    ELSE BCmpFrom(a, b, i - 1)

BCmp(a, b) ==
    IF Len(a) < Len(b) THEN -1
    ELSE IF Len(a) > Len(b) THEN 1
    ELSE BCmpFrom(a, b, Len(a))

\* a * k + c for a limb k
RECURSIVE BMulSmall(_, _, _)
BMulSmall(a, k, c) ==
    IF a = <<>> THEN (IF c = 0 THEN <<>> ELSE <<c>>)
    ELSE LET t == Head(a) * k + c
         IN  <<t % Base>> \o BMulSmall(Tail(a), k, t \div Base)

RECURSIVE BMul(_, _)
BMul(a, b) ==
    IF a = <<>> \/ b = <<>> THEN <<>>
    ELSE LET rest == BMul(a, Tail(b))
         IN  BNorm(BAdd(BMulSmall(a, Head(b), 0),
                        IF rest = <<>> THEN rest ELSE <<0>> \o rest))

Zeros(n) == [i \in 1..n |-> 0]

\* a * 2^n
BShl(a, n) ==
    IF a = <<>> THEN a
    ELSE Zeros(n \div LimbBits) \o BMulSmall(a, 2^(n % LimbBits), 0)

\* floor(a / d) for a limb d, from the top limb down; r is the running remainder
RECURSIVE BDivSmallFrom(_, _, _, _)
BDivSmallFrom(a, d, i, r) ==
    IF i = 0 THEN <<>>
    ELSE LET t == r * Base + a[i]
         IN  BDivSmallFrom(a, d, i - 1, t % d) \o <<t \div d>>

\* floor(a / 2^n)
BShr(a, n) ==
    LET w == n \div LimbBits
    IN  IF w >= Len(a) THEN <<>>
        ELSE LET hi == SubSeq(a, w + 1, Len(a))
             IN  BNorm(BDivSmallFrom(hi, 2^(n % LimbBits), Len(hi), 0))

RECURSIVE BitLenInt(_)
BitLenInt(n) == IF n = 0 THEN 0 ELSE 1 + BitLenInt(n \div 2)

BBitLen(a) ==
    IF a = <<>> THEN 0 ELSE LimbBits * (Len(a) - 1) + BitLenInt(a[Len(a)])

\* bit i of a (bit 0 is the lowest)
BBit(a, i) ==
    LET w == i \div LimbBits + 1
    IN  IF w > Len(a) THEN 0 ELSE (a[w] \div 2^(i % LimbBits)) % 2

\* whether a mod 2^n is nonzero
BLowNonzero(a, n) == BShl(BShr(a, n), n) # a

BIsOdd(a) == a # <<>> /\ a[1] % 2 = 1

\* a * k for a limb k
BMulLimb(a, k) == BNorm(BMulSmall(a, k, 0))

\* the largest d + x, x < 2^j, with (d + x) * b <= r, given d * b <= r
RECURSIVE BDigit(_, _, _, _)
BDigit(r, b, j, d) ==
    IF j = 0 THEN d
    ELSE LET d2 == d + 2^(j - 1)
         IN  IF BCmp(BMulLimb(b, d2), r) <= 0 THEN BDigit(r, b, j - 1, d2)
             ELSE BDigit(r, b, j - 1, d)

\* long division, one limb at a time from the top:
\* <<floor(A / b), A mod b>> for A = floor(a / Base^i), b # 0
RECURSIVE BDivModFrom(_, _, _)
BDivModFrom(a, b, i) ==
    IF i >= Len(a) THEN <<(<<>>), (<<>>)>>
    ELSE LET qr == BDivModFrom(a, b, i + 1)
             r2 == BNorm(<<a[i + 1]>> \o qr[2])
             d  == IF BCmp(r2, b) < 0 THEN 0 ELSE BDigit(r2, b, LimbBits, 0)
         IN  <<BNorm(<<d>> \o qr[1]), BSub(r2, BMulLimb(b, d))>>

\* <<floor(a / b), a mod b>> for b # 0
BDivMod(a, b) == BDivModFrom(a, b, 0)

(***************************************************************************)
(* IEEE 754 binary64.  A finite float is (-1)^s * m * 2^e with either      *)
(* 2^52 <= m < 2^53 and MinExp <= e <= MaxExp (normal), or m < 2^52 and    *)
(* e = MinExp (subnormal, and zero).                                       *)
(***************************************************************************)
MantBits == 53
MinExp == -1074
MaxExp == 971

Float(s, m, e) == [k |-> "fin", s |-> s, m |-> m, e |-> e]
Inf(s) == [k |-> "inf", s |-> s, m |-> <<>>, e |-> 0]
NaN == [k |-> "nan", s |-> 0, m |-> <<>>, e |-> 0]
Zero(s) == Float(s, <<>>, MinExp)

TwoTo52 == BShl(<<1>>, MantBits - 1)
TwoTo53 == BShl(<<1>>, MantBits)

\* The float nearest to (-1)^s * (M + f) * 2^E, where 0 <= f < 1 and f > 0
\* exactly when sticky; ties go to the even significand.  With sticky set, M
\* has at least MantBits + 2 bits.
RoundPack(s, M, E, sticky) ==
    IF M = <<>> THEN Zero(s)
    ELSE LET L  == BBitLen(M)
             e1 == IF E + L - MantBits > MinExp THEN E + L - MantBits ELSE MinExp
             sh == e1 - E
         IN  IF sh <= 0
             THEN IF e1 > MaxExp THEN Inf(s) ELSE Float(s, BShl(M, -sh), e1)
             ELSE LET q    == BShr(M, sh)
                      half == BBit(M, sh - 1) = 1
                      rest == sticky \/ BLowNonzero(M, sh - 1)
                      up   == half /\ (rest \/ BIsOdd(q))
                      q1   == IF up THEN BAdd(q, <<1>>) ELSE q
                      m2   == IF q1 = TwoTo53 THEN TwoTo52 ELSE q1
                      e2   == IF q1 = TwoTo53 THEN e1 + 1 ELSE e1
                  IN  IF e2 > MaxExp THEN Inf(s)
                      ELSE IF m2 = <<>> THEN Zero(s)
                      ELSE Float(s, m2, e2)

\* float(n) for an int n with |n| < 2^31 (exact)
FromInt(n) ==
    IF n < 0 THEN RoundPack(1, BFromInt(-n), 0, FALSE)
    ELSE RoundPack(0, BFromInt(n), 0, FALSE)

IsZero(a) == a.k = "fin" /\ a.m = <<>>

FNeg(a) == IF a.k = "nan" THEN a ELSE [a EXCEPT !.s = 1 - a.s]

FAbs(a) == IF a.k = "nan" THEN a ELSE [a EXCEPT !.s = 0]

\* |a| < |b| for finite a, b
MagLess(a, b) == a.e < b.e \/ (a.e = b.e /\ BCmp(a.m, b.m) < 0)

\* Python's a < b (false when either is a NaN)
FLess(a, b) ==
    IF a.k = "nan" \/ b.k = "nan" THEN FALSE
    ELSE IF IsZero(a) /\ IsZero(b) THEN FALSE
    ELSE IF a.s # b.s THEN a.s = 1
    ELSE IF a.k = "inf" \/ b.k = "inf"
         THEN (IF a.s = 0 THEN a.k = "fin" /\ b.k = "inf"
                          ELSE a.k = "inf" /\ b.k = "fin")
    ELSE IF a.s = 0 THEN MagLess(a, b) ELSE MagLess(b, a)

\* a + b for finite a, b whose exponents differ by more than MantBits + 3:
\* the smaller one only decides the rounding (hi is normal, |lo| < ulp(hi) / 8)
FAddFar(hi, lo) ==
    LET M == BShl(hi.m, 3)
    IN  IF hi.s = lo.s THEN RoundPack(hi.s, M, hi.e - 3, TRUE)
        ELSE RoundPack(hi.s, BSub(M, <<1>>), hi.e - 3, TRUE)

\* Python's a + b
FAdd(a, b) ==
    IF a.k = "nan" \/ b.k = "nan" THEN NaN
    ELSE IF a.k = "inf"
         THEN (IF b.k = "inf" /\ b.s # a.s THEN NaN ELSE a)
    ELSE IF b.k = "inf" THEN b
    ELSE IF IsZero(a) /\ IsZero(b) THEN Zero(IF a.s = 1 /\ b.s = 1 THEN 1 ELSE 0)
    ELSE IF IsZero(b) THEN a
    ELSE IF IsZero(a) THEN b
    ELSE IF a.e - b.e > MantBits + 3 THEN FAddFar(a, b)
    ELSE IF b.e - a.e > MantBits + 3 THEN FAddFar(b, a)
    ELSE LET e0 == IF a.e < b.e THEN a.e ELSE b.e
             A  == BShl(a.m, a.e - e0)
             B  == BShl(b.m, b.e - e0)
         IN  IF a.s = b.s THEN RoundPack(a.s, BAdd(A, B), e0, FALSE)
             ELSE IF BCmp(A, B) = 0 THEN Zero(0)
             ELSE IF BCmp(A, B) > 0 THEN RoundPack(a.s, BSub(A, B), e0, FALSE)
             ELSE RoundPack(b.s, BSub(B, A), e0, FALSE)

\* Python's a - b
FSub(a, b) == FAdd(a, FNeg(b))

\* Python's a * b
FMul(a, b) ==
    LET s == (a.s + b.s) % 2
    IN  IF a.k = "nan" \/ b.k = "nan" THEN NaN
        ELSE IF a.k = "inf" \/ b.k = "inf"
             THEN (IF IsZero(a) \/ IsZero(b) THEN NaN ELSE Inf(s))
        ELSE RoundPack(s, BMul(a.m, b.m), a.e + b.e, FALSE)

\* Python's a / b for b # 0.0 (b = 0.0 raises ZeroDivisionError: see DivRaises)
FDiv(a, b) ==
    LET s == (a.s + b.s) % 2
    IN  IF a.k = "nan" \/ b.k = "nan" THEN NaN
        ELSE IF a.k = "inf" THEN (IF b.k = "inf" THEN NaN ELSE Inf(s))
        ELSE IF b.k = "inf" THEN Zero(s)
        ELSE IF a.m = <<>> THEN Zero(s)
        ELSE LET want == MantBits + 3 + BBitLen(b.m) - BBitLen(a.m)
                 k    == IF want > 0 THEN want ELSE 0
                 qr   == BDivMod(BShl(a.m, k), b.m)
             IN  RoundPack(s, qr[1], a.e - b.e - k, qr[2] # <<>>)

\* IEEE division, which never traps
DivNeverRaises(b) == FALSE

\* Python raises ZeroDivisionError for a / b exactly when b is 0.0 or -0.0
DivRaises(b) == IsZero(b)

(***************************************************************************)
(* Python values handed to the constructor: an int, a float, or None.      *)
(***************************************************************************)
None == [k |-> "none", s |-> 0, m |-> <<>>, e |-> 0]

PyInt(n) == [t |-> "int", n |-> n, f |-> None]
PyFloat(f) == [t |-> "float", n |-> 0, f |-> f]
PyNone == [t |-> "None", n |-> 0, f |-> None]

\* float(x), and the conversion of an int operand in mixed arithmetic
ToFloat(x) == IF x.t = "int" THEN FromInt(x.n) ELSE x.f

\* Python's x < 0
LessThanZero(x) == IF x.t = "int" THEN x.n < 0 ELSE FLess(x.f, Zero(0))

Half == RoundPack(0, <<1>>, -1, FALSE)
Two == FromInt(2)
MinSubnormal == Float(0, <<1>>, MinExp)

\* a threshold of 0.5
CoarsePrecision == RoundPack(0, <<1>>, -1, FALSE)

\* 1e-10, the float 7737125245533627 * 2^-86
DefaultPrecision == Float(0, <<15803, 13231, 29567, 219>>, -86)
DefaultMaxIterations == 1000

(***************************************************************************)
(* ConvergenceMonitor                                                      *)
(***************************************************************************)
NewMonitor(target_precision) ==
    [target_precision |-> target_precision,
     iteration_count |-> 0,
     previous_approximation |-> None]

NoMonitor == [target_precision |-> None, iteration_count |-> 0,
              previous_approximation |-> None]

\* update with delta <= target_precision as its test
UpdateNotStrict(mon, current_approximation) ==
    LET counted == [mon EXCEPT !.iteration_count = @ + 1]
    IN  IF mon.previous_approximation = None
        THEN [monitor |-> [counted EXCEPT
                             !.previous_approximation = current_approximation],
              ret |-> FALSE]
        ELSE LET delta == FAbs(FSub(current_approximation,
                                    mon.previous_approximation))
             IN  [monitor |-> [counted EXCEPT
                                 !.previous_approximation = current_approximation],
                  ret |-> ~FLess(mon.target_precision, delta)]

\* ConvergenceMonitor.update: the monitor after the call and the value returned
Update(mon, current_approximation) ==
    LET counted == [mon EXCEPT !.iteration_count = @ + 1]
    IN  IF mon.previous_approximation = None
        THEN [monitor |-> [counted EXCEPT
                             !.previous_approximation = current_approximation],
              ret |-> FALSE]
        ELSE LET delta == FAbs(FSub(current_approximation,
                                    mon.previous_approximation))
             IN  [monitor |-> [counted EXCEPT
                                 !.previous_approximation = current_approximation],
                  ret |-> FLess(delta, mon.target_precision)]

(***************************************************************************)
(* OverEngineeredSquareRootSolver                                          *)
(***************************************************************************)
NoArgs == [number |-> PyNone, max_iterations |-> 0, initial_guess |-> PyNone]
NoObj == [number |-> None, max_iterations |-> 0, initial_guess |-> PyNone]
Unbuilt == [built |-> "no", args |-> NoArgs, obj |-> NoObj]

\* a guard that also rejects zero
InitRaisesOnZero(number) == LessThanZero(number) \/ IsZero(ToFloat(number))

\* __init__ raises ValueError
InitRaises(number) == LessThanZero(number)

\* the fields __init__ stores
BuildObj(args) ==
    LET number == ToFloat(args.number)
    IN  [number |-> number,
         max_iterations |-> args.max_iterations,
         initial_guess |-> IF args.initial_guess.t # "None"
                           THEN args.initial_guess
                           ELSE PyFloat(FDiv(number, Two))]

\* x_{n+1} = 0.5 * (x_n + N / x_n), for x_n # 0.0
NewtonStep(number, x_n) == FMul(Half, FAdd(x_n, FDiv(number, x_n)))

\* a loop that runs once more
LoopRunsOnceMore(i, max_iterations) == i <= max_iterations

\* the for loop runs its body for i = 0 .. max_iterations - 1
LoopContinues(i, max_iterations) == i < max_iterations

\* what solve() does once the generator is drained
Finish(final_approximation) ==
    IF final_approximation = None
    THEN [outcome |-> "RuntimeError", result |-> None]
    ELSE [outcome |-> "returned", result |-> final_approximation]

\* the rest of a solve call that nothing interrupts, from the top of the loop
RECURSIVE Drain(_, _, _, _, _)
Drain(obj, mon, x_n, i, final_approximation) ==
    IF ~LoopContinues(i, obj.max_iterations) THEN Finish(final_approximation)
    ELSE IF DivRaises(x_n) THEN [outcome |-> "ZeroDivisionError", result |-> None]
    ELSE LET x_n_plus_1 == NewtonStep(obj.number, x_n)
             u == Update(mon, x_n_plus_1)
         IN  IF u.ret THEN Finish(x_n_plus_1)
             ELSE Drain(obj, u.monitor, x_n_plus_1, i + 1, x_n_plus_1)

\* solve() run alone on a solver with the fields obj
SolveAlone(obj) ==
    Drain(obj, NewMonitor(DefaultPrecision), ToFloat(obj.initial_guess), 0, None)

\* one monitor shared by every solve call
SharedMonitorKey(c) == 1

\* the monitor a solve call uses: its own local variable
MonitorKey(c) == c

\* the rest of an iteration once monitor.update has returned u: yield and
\* break, or assign x_n and yield
Yield(call, x_n_plus_1, u) ==
    [call |-> [call EXCEPT
                 !.updates = Append(@, [value |-> x_n_plus_1, ret |-> u.ret]),
                 !.yielded = Append(@, x_n_plus_1),
                 !.final_approximation = x_n_plus_1,
                 !.phase = IF u.ret THEN "CONVERGED" ELSE "ITERATING",
                 !.x_n = IF u.ret THEN @ ELSE x_n_plus_1,
                 !.i = IF u.ret THEN @ ELSE @ + 1],
     monitor |-> u.monitor]

\* an iteration from the call of monitor.update on
Monitored(call, mon, x_n_plus_1) == Yield(call, x_n_plus_1, Update(mon, x_n_plus_1))

\* one pass through the loop body, up to and including its yield; the division
\* raises before anything is updated or yielded
LoopBody(call, obj, mon) ==
    IF DivRaises(call.x_n)
    THEN [call |-> [call EXCEPT !.phase = "ITERATING",
                                !.outcome = "ZeroDivisionError"],
          monitor |-> mon]
    ELSE Monitored(call, mon, NewtonStep(obj.number, call.x_n))

IdleCall == [solver |-> 0, phase |-> "IDLE", outcome |-> "none", x_n |-> None,
             i |-> 0, final_approximation |-> None, updates |-> <<>>,
             yielded |-> <<>>, result |-> None]

(***************************************************************************)
(* Inputs                                                                  *)
(***************************************************************************)
MaxNumber == 4
MaxIterChoice == 2
MaxGuess == 2
MaxUpdates == 3

Numbers ==
    {PyInt(n) : n \in -1..MaxNumber}
        \cup {PyInt(16), PyInt(1048576), PyInt(4196720),
              PyFloat(MinSubnormal), PyFloat(FNeg(Half))}

IterationChoices == 0..MaxIterChoice \cup {DefaultMaxIterations}

Guesses == {PyNone} \cup {PyInt(n) : n \in 0..MaxGuess} \cup {PyInt(-2)}

Args(number, max_iterations, initial_guess) ==
    [number |-> number, max_iterations |-> max_iterations,
     initial_guess |-> initial_guess]

\* a guess of 5e-324: halving it gives 0.0, dividing by it overflows
ExtremeInputs ==
    {Args(PyInt(n), k, PyFloat(MinSubnormal)) : n \in {0, 1}, k \in 0..MaxIterChoice}

SolverInputs ==
    {Args(n, k, g) : n \in Numbers, k \in IterationChoices, g \in Guesses}
        \cup ExtremeInputs

\* the values fed to a free-standing monitor: 0.0, 1e-10, 1.0, 1.0 + 2^-52, 1.5
MonitorValues ==
    {Zero(0), DefaultPrecision, FromInt(1),
     FAdd(FromInt(1), RoundPack(0, <<1>>, -52, FALSE)),
     FAdd(FromInt(1), Half)}

Precisions == {DefaultPrecision, Half}

\* solvers of the interleaving specification, constructed beforehand
ConcArgs ==
    {Args(PyInt(4), DefaultMaxIterations, PyNone),
     Args(PyInt(2), DefaultMaxIterations, PyNone),
     Args(PyInt(0), DefaultMaxIterations, PyNone),
     Args(PyInt(16), 1, PyNone),
     Args(PyInt(4), 0, PyNone)}

VARIABLES
    solvers,    \* solver slot -> [built, args, obj]
    calls,      \* solve call -> its local state and history
    monitors,   \* monitor key -> ConvergenceMonitor object
    log         \* update calls made on the free-standing monitor 0

vars == <<solvers, calls, monitors, log>>

CallIds == DOMAIN calls
SolverIds == DOMAIN solvers

\* the generator is suspended in, or about to enter, the for loop
Running(c) == calls[c].phase = "ITERATING" /\ calls[c].outcome = "none"

ObjOf(c) == solvers[calls[c].solver].obj

\* OverEngineeredSquareRootSolver(number, max_iterations, initial_guess)
Construct(s, number, max_iterations, initial_guess) ==
    LET args == Args(number, max_iterations, initial_guess)
    IN  /\ solvers[s].built = "no"
        /\ solvers' = [solvers EXCEPT ![s] =
              IF InitRaises(number)
              THEN [built |-> "ValueError", args |-> args, obj |-> NoObj]
              ELSE [built |-> "yes", args |-> args, obj |-> BuildObj(args)]]
        /\ UNCHANGED <<calls, monitors, log>>

\* solve() up to the for statement: the monitor and the generator object are
\* created, the generator body has not run yet
Solve(c, s) ==
    /\ calls[c].phase = "IDLE"
    /\ solvers[s].built = "yes"
    /\ monitors' = [monitors EXCEPT ![MonitorKey(c)] = NewMonitor(DefaultPrecision)]
    /\ calls' = [calls EXCEPT ![c] =
          [IdleCall EXCEPT !.solver = s, !.phase = "INITIALIZED"]]
    /\ UNCHANGED <<solvers, log>>

\* the first resumption of the generator: x_n = self.initial_guess, and the
\* for statement is reached
Start(c) ==
    /\ calls[c].phase = "INITIALIZED"
    /\ calls' = [calls EXCEPT ![c].phase = "ITERATING",
                              ![c].x_n = ToFloat(ObjOf(c).initial_guess)]
    /\ UNCHANGED <<solvers, monitors, log>>

\* the generator resumed inside the loop
Iterate(c) ==
    /\ Running(c)
    /\ LoopContinues(calls[c].i, ObjOf(c).max_iterations)
    /\ \E after \in {LoopBody(calls[c], ObjOf(c), monitors[MonitorKey(c)])} :
          /\ calls' = [calls EXCEPT ![c] = after.call]
          /\ monitors' = [monitors EXCEPT ![MonitorKey(c)] = after.monitor]
    /\ UNCHANGED <<solvers, log>>

\* an else clause that raises instead of logging a warning
ExhaustRaises(c) ==
    /\ Running(c)
    /\ ~LoopContinues(calls[c].i, ObjOf(c).max_iterations)
    /\ calls' = [calls EXCEPT ![c].phase = "EXHAUSTED",
                              ![c].outcome = "RuntimeError"]
    /\ UNCHANGED <<solvers, monitors, log>>

\* the loop ends without a break: the else clause
Exhaust(c) ==
    /\ Running(c)
    /\ ~LoopContinues(calls[c].i, ObjOf(c).max_iterations)
    /\ calls' = [calls EXCEPT ![c].phase = "EXHAUSTED"]
    /\ UNCHANGED <<solvers, monitors, log>>

\* solve() after the generator is drained
Return(c) ==
    /\ calls[c].phase \in {"CONVERGED", "EXHAUSTED"}
    /\ calls[c].outcome = "none"
    /\ calls' = [calls EXCEPT ![c] =
          LET end == Finish(calls[c].final_approximation)
          IN  [calls[c] EXCEPT !.outcome = end.outcome, !.result = end.result]]
    /\ UNCHANGED <<solvers, monitors, log>>

\* monitor.update(v) on the free-standing monitor
UpdateCall(v) ==
    LET u == Update(monitors[0], v)
    IN  /\ Len(log) < MaxUpdates
        /\ monitors' = [monitors EXCEPT ![0] = u.monitor]
        /\ log' = Append(log, [arg |-> v, ret |-> u.ret])
        /\ UNCHANGED <<solvers, calls>>

Init ==
    /\ solvers = [s \in {1} |-> Unbuilt]
    /\ calls = [c \in {1} |-> IdleCall]
    /\ monitors = [c \in {1} |-> NoMonitor]
    /\ log = <<>>

Next ==
    \/ \E s \in SolverIds, a \in SolverInputs :
            Construct(s, a.number, a.max_iterations, a.initial_guess)
    \/ \E c \in CallIds, s \in SolverIds : Solve(c, s)
    \/ \E c \in CallIds : Start(c)
    \/ \E c \in CallIds : Iterate(c)
    \/ \E c \in CallIds : Exhaust(c)
    \/ \E c \in CallIds : Return(c)

Spec == Init /\ [][Next]_vars

\* the guard of Iterate(c), which always changes calls[c]
IterateEnabled(c) ==
    Running(c) /\ LoopContinues(calls[c].i, ObjOf(c).max_iterations)

\* WF_vars(Iterate(c)), with ENABLED <<Iterate(c)>>_vars written as the guard
IterateFair(c) == []<>(~IterateEnabled(c)) \/ []<><<Iterate(c)>>_vars

\* a started call runs to its end: the code is synchronous
FairSpec ==
    /\ Spec
    /\ \A c \in {1} : /\ WF_vars(Start(c))
                       /\ IterateFair(c)
                       /\ WF_vars(Exhaust(c))
                       /\ WF_vars(Return(c))

InitMonitor ==
    /\ solvers = [s \in {1} |-> Unbuilt]
    /\ calls = [c \in {1} |-> IdleCall]
    /\ \E p \in Precisions : monitors = [k \in {0} |-> NewMonitor(p)]
    /\ log = <<>>

NextMonitor == \E v \in MonitorValues : UpdateCall(v)

SpecMonitor == InitMonitor /\ [][NextMonitor]_vars

InitConc ==
    /\ solvers \in [{1, 2} -> {[built |-> "yes", args |-> a, obj |-> BuildObj(a)] :
                                a \in ConcArgs}]
    /\ calls = [c \in {1, 2} |-> IdleCall]
    /\ monitors = [c \in {1, 2} |-> NoMonitor]
    /\ log = <<>>

NextConc ==
    \/ \E c \in CallIds, s \in SolverIds : Solve(c, s)
    \/ \E c \in CallIds : Start(c)
    \/ \E c \in CallIds : Iterate(c)
    \/ \E c \in CallIds : Exhaust(c)
    \/ \E c \in CallIds : Return(c)

SpecConc == InitConc /\ [][NextConc]_vars

(***************************************************************************)
(* Claims                                                                  *)
(***************************************************************************)
Finished(c) == calls[c].outcome # "none"
Started(c) == calls[c].phase # "IDLE"
ArgsOf(c) == solvers[calls[c].solver].args
Last(q) == q[Len(q)]

\* x < 0 read off the representation
Negative(x) ==
    IF x.t = "int" THEN x.n <= -1
    ELSE x.f.s = 1 /\ (x.f.k = "inf" \/ (x.f.k = "fin" /\ x.f.m # <<>>))

\* C1: constructing with a number < 0 raises ValueError for every max_iterations
\* and every initial_guess, and yields no solver (no fields are stored, no call
\* ever runs on it); constructing with a number >= 0 never raises ValueError.
C1_NegativeRejected ==
    /\ \A s \in SolverIds :
          solvers[s].built # "no" =>
             /\ solvers[s].built = "ValueError" <=> Negative(solvers[s].args.number)
             /\ solvers[s].built = "ValueError" => solvers[s].obj = NoObj
             /\ solvers[s].built = "yes" =>
                   /\ solvers[s].obj.number = ToFloat(solvers[s].args.number)
                   /\ solvers[s].obj.max_iterations = solvers[s].args.max_iterations
    /\ \A c \in CallIds : Started(c) => solvers[calls[c].solver].built = "yes"

C1_Witness ==
    \E s \in SolverIds :
        /\ solvers[s].built = "ValueError"
        /\ solvers[s].args = Args(PyInt(-1), 1, PyInt(2))

\* C9: for number == 0 with the default guess, construction succeeds and solve()
\* (max_iterations >= 1) fails on the first iteration with ZeroDivisionError:
\* nothing is yielded, monitor.update is never called, and the failure is
\* neither ValueError nor RuntimeError.
C9_ZeroNumberDivides ==
    \A s \in SolverIds :
        (IsZero(ToFloat(solvers[s].args.number)) /\ solvers[s].args.initial_guess = PyNone
         /\ solvers[s].built # "no") =>
            /\ solvers[s].built = "yes"
            /\ IsZero(ToFloat(solvers[s].obj.initial_guess))
            /\ \A c \in CallIds :
                  (Started(c) /\ calls[c].solver = s) =>
                     /\ calls[c].yielded = <<>>
                     /\ calls[c].updates = <<>>
                     /\ monitors[c].iteration_count = 0
                     /\ calls[c].i = 0
                     /\ (Finished(c) /\ solvers[s].obj.max_iterations >= 1) =>
                            calls[c].outcome = "ZeroDivisionError"

C9_Witness ==
    \E c \in CallIds :
        /\ Started(c)
        /\ ArgsOf(c) = Args(PyInt(0), DefaultMaxIterations, PyNone)
        /\ calls[c].outcome = "ZeroDivisionError"
        /\ calls[c].yielded = <<>>

\* the k-th Newton iterate from x
RECURSIVE NewtonIterate(_, _, _)
NewtonIterate(number, x, k) ==
    IF k = 0 THEN x ELSE NewtonStep(number, NewtonIterate(number, x, k - 1))

\* C5: when the loop runs all max_iterations (>= 1) iterations and the monitor
\* never reports convergence, solve() raises nothing and returns the last
\* iterate produced, the max_iterations-th Newton iterate, as a plain float.
C5_SilentDegradation ==
    \A c \in CallIds :
        (calls[c].phase = "EXHAUSTED" /\ ObjOf(c).max_iterations >= 1) =>
            /\ Len(calls[c].yielded) = ObjOf(c).max_iterations
            /\ \A j \in 1..Len(calls[c].updates) : ~calls[c].updates[j].ret
            /\ calls[c].final_approximation = Last(calls[c].yielded)
            /\ Finished(c) =>
                  /\ calls[c].outcome = "returned"
                  /\ calls[c].result = Last(calls[c].yielded)
                  /\ calls[c].result =
                        NewtonIterate(ObjOf(c).number, ToFloat(ObjOf(c).initial_guess),
                                      ObjOf(c).max_iterations)
                  /\ calls[c].result.k \in {"fin", "inf", "nan"}

C5_Witness ==
    \E c \in CallIds :
        /\ calls[c].phase = "EXHAUSTED"
        /\ ArgsOf(c) = Args(PyInt(16), 1, PyNone)
        /\ calls[c].outcome = "returned"
        /\ calls[c].result = FromInt(5)

\* C10 as stated: convergence is never reported on the first iteration: the
\* initial guess is never fed to the monitor, whose first update only records
\* the first iterate.  So a solve with max_iterations = 1 always ends
\* EXHAUSTED; a solve with max_iterations >= 2 that does not fail has produced
\* at least 2 iterates; and at CONVERGED the monitor's iteration_count is the
\* number of iterates produced and is at least 2.
C10_NoFirstIterationConvergence ==
    \A c \in CallIds :
        Started(c) =>
            /\ calls[c].updates # <<>> =>
                  /\ ~calls[c].updates[1].ret
                  /\ calls[c].updates[1].value =
                        NewtonStep(ObjOf(c).number, ToFloat(ObjOf(c).initial_guess))
            /\ monitors[c].previous_approximation =
                  (IF calls[c].updates = <<>> THEN None ELSE Last(calls[c].updates).value)
            /\ ObjOf(c).max_iterations = 1 =>
                  /\ calls[c].phase # "CONVERGED"
                  /\ Finished(c) => calls[c].phase = "EXHAUSTED"
            /\ (ObjOf(c).max_iterations >= 2 /\ calls[c].outcome = "returned") =>
                  Len(calls[c].yielded) >= 2
            /\ calls[c].phase = "CONVERGED" =>
                  /\ monitors[c].iteration_count = Len(calls[c].yielded)
                  /\ monitors[c].iteration_count >= 2

\* the state of a call agrees with the sequence the generator has produced
SequenceInv(c) ==
    LET ups == calls[c].updates
        n   == Len(ups)
    IN  /\ Len(calls[c].yielded) = n
        /\ \A j \in 1..n : calls[c].yielded[j] = ups[j].value
        /\ \A j \in 1..(n - 1) : ~ups[j].ret
        /\ monitors[c].iteration_count = n
        /\ calls[c].phase = "CONVERGED" <=> (n >= 1 /\ ups[n].ret)
        /\ calls[c].phase = "EXHAUSTED" => calls[c].i = ObjOf(c).max_iterations
        /\ calls[c].phase \in {"IDLE", "INITIALIZED"} => n = 0
        /\ Finished(c) => calls[c].phase \in {"CONVERGED", "EXHAUSTED"}
        /\ (calls[c].phase = "CONVERGED" /\ Finished(c)) =>
              /\ calls[c].outcome = "returned"
              /\ calls[c].result = ups[n].value

PhaseEdges ==
    {<<"IDLE", "INITIALIZED">>, <<"INITIALIZED", "ITERATING">>,
     <<"ITERATING", "CONVERGED">>, <<"ITERATING", "EXHAUSTED">>}

\* one step of a call: the phase moves along an edge of the state machine, the
\* sequence grows by at most one iterate, which is the Newton update of the
\* previous one, and nothing is produced once CONVERGED or EXHAUSTED
PhaseStep ==
    \A c \in CallIds :
        LET old  == calls[c]
            new  == calls'[c]
        IN  /\ new.phase = old.phase \/ <<old.phase, new.phase>> \in PhaseEdges
            /\ new.updates = old.updates \/
                  /\ Len(new.updates) = Len(old.updates) + 1
                  /\ SubSeq(new.updates, 1, Len(old.updates)) = old.updates
                  /\ old.phase = "ITERATING"
                  /\ Last(new.updates).value = NewtonStep(ObjOf(c).number, old.x_n)
                  /\ new.x_n = IF Last(new.updates).ret THEN old.x_n
                               ELSE Last(new.updates).value
            /\ old.phase \in {"CONVERGED", "EXHAUSTED"} =>
                  /\ new.updates = old.updates
                  /\ new.yielded = old.yielded
                  /\ monitors'[c] = monitors[c]

\* C7 as stated: each solve() call moves INITIALIZED -> ITERATING -> exactly
\* one of CONVERGED or EXHAUSTED, which it reaches, and the sequence stops at
\* the first convergence: the iterate for which monitor.update returns true is
\* yielded once as the last element, no Newton update or monitor.update
\* follows, and solve() returns it; every earlier iterate is yielded exactly
\* once, in order.
C7_StateMachine ==
    /\ [](\A c \in CallIds : SequenceInv(c))
    /\ [][PhaseStep]_vars
    /\ \A c \in {1} : Started(c) ~> (calls[c].phase \in {"CONVERGED", "EXHAUSTED"})

\* C4: every solve() call terminates, and per call the Newton update is
\* applied, monitor.update is called and an approximation is yielded at most
\* max_iterations times, whatever the number and the initial guess.
C4_BoundedTermination ==
    /\ [](\A c \in CallIds :
            Started(c) =>
               /\ calls[c].i <= ObjOf(c).max_iterations
               /\ Len(calls[c].updates) <= ObjOf(c).max_iterations
               /\ Len(calls[c].yielded) <= ObjOf(c).max_iterations
               /\ monitors[c].iteration_count <= ObjOf(c).max_iterations)
    /\ \A c \in {1} : Started(c) ~> Finished(c)

C4_Witness ==
    \E c \in CallIds :
        /\ Finished(c)
        /\ ObjOf(c).max_iterations = 2
        /\ Len(calls[c].yielded) = 2
        /\ monitors[c].iteration_count = 2

\* C6 as stated: solve() raises RuntimeError exactly when the sequence ends
\* with zero elements, and with max_iterations >= 1 and a nonzero initial
\* guess the sequence has at least one element and solve() returns a value.
C6_NoResultOnlyWhenEmpty ==
    \A c \in CallIds :
        Finished(c) =>
            /\ calls[c].outcome = "RuntimeError" <=>
                  (calls[c].phase \in {"CONVERGED", "EXHAUSTED"} /\ calls[c].yielded = <<>>)
            /\ (ObjOf(c).max_iterations >= 1 /\ ~IsZero(ToFloat(ObjOf(c).initial_guess))) =>
                  /\ Len(calls[c].yielded) >= 1
                  /\ calls[c].outcome = "returned"

\* 1e-9, the float 4835703278458517 * 2^-82
ResidualTolerance == Float(0, <<22165, 20557, 14383, 137>>, -82)

\* abs(x*x - number) < 1e-9
ResidualSmall(x, number) ==
    FLess(FAbs(FSub(FMul(x, x), ToFloat(number))), ResidualTolerance)

DefaultCall(c) ==
    /\ Started(c)
    /\ ArgsOf(c).max_iterations = DefaultMaxIterations
    /\ ArgsOf(c).initial_guess = PyNone

Positive(x) == ~Negative(x) /\ ~IsZero(ToFloat(x))

\* C2 as stated: for every number > 0, solve() with the defaults returns x
\* with abs(x*x - number) < 1e-9.
C2_ResidualAllPositive ==
    \A c \in CallIds :
        (DefaultCall(c) /\ Positive(ArgsOf(c).number) /\ Finished(c)) =>
            /\ calls[c].outcome = "returned"
            /\ ResidualSmall(calls[c].result, ArgsOf(c).number)

\* 2^20
ResidualRange == FromInt(1048576)

\* C2, amended: for every number with 0 < number <= 2^20, solve() with the
\* defaults returns x with abs(x*x - number) < 1e-9, except that for the
\* smallest subnormal 5e-324 the default guess number/2 is 0.0 and solve()
\* raises ZeroDivisionError.
C2_ResidualInRange ==
    \A c \in CallIds :
        (DefaultCall(c) /\ Positive(ArgsOf(c).number) /\ Finished(c)
         /\ ~FLess(ResidualRange, ToFloat(ArgsOf(c).number))) =>
            IF ArgsOf(c).number = PyFloat(MinSubnormal)
            THEN calls[c].outcome = "ZeroDivisionError"
            ELSE /\ calls[c].outcome = "returned"
                 /\ ResidualSmall(calls[c].result, ArgsOf(c).number)

C2_Witness ==
    \E c \in CallIds :
        /\ DefaultCall(c)
        /\ ArgsOf(c).number = PyInt(1048576)
        /\ calls[c].outcome = "returned"
        /\ calls[c].result = FromInt(1024)
        /\ ResidualSmall(calls[c].result, ArgsOf(c).number)

\* C3: on a monitor, update(v) returns true if and only if it is not the first
\* call and abs(v - p) < target_precision, strictly, where p is the value of the
\* preceding call; each call counts one iteration and records v as previous.
C3_UpdateIff ==
    /\ \A j \in 1..Len(log) :
          log[j].ret <=>
             /\ j > 1
             /\ FLess(FAbs(FSub(log[j].arg, log[j - 1].arg)),
                      monitors[0].target_precision)
    /\ monitors[0].iteration_count = Len(log)
    /\ monitors[0].previous_approximation =
          (IF log = <<>> THEN None ELSE Last(log).arg)

C3_Witness ==
    /\ Len(log) = 2
    /\ log[1].arg = FromInt(1)
    /\ log[2].arg # log[1].arg
    /\ ~log[1].ret
    /\ log[2].ret

\* what each solver of the interleaving specification returns when its
\* solve() runs alone
AloneResults == [a \in ConcArgs |-> SolveAlone(BuildObj(a))]

\* C8: solve() calls are independent: each call starts from its own fresh
\* monitor (iteration count 0, previous unset, precision 1e-10), only that call
\* updates it, the solver's number, max_iterations and initial_guess stay as
\* constructed, and under every interleaving of two calls, on separate solvers
\* or on the same one, each call ends as it does when run alone.
C8_Independent ==
    /\ \A s \in SolverIds : solvers[s].obj = BuildObj(solvers[s].args)
    /\ \A c \in CallIds :
          /\ calls[c].phase = "INITIALIZED" => monitors[c] = NewMonitor(DefaultPrecision)
          /\ Started(c) =>
                /\ monitors[c].target_precision = DefaultPrecision
                /\ monitors[c].iteration_count = Len(calls[c].updates)
          /\ Finished(c) =>
                [outcome |-> calls[c].outcome, result |-> calls[c].result]
                   = AloneResults[ArgsOf(c)]

C8_Witness ==
    /\ Started(1) /\ Started(2)
    /\ calls[1].solver = calls[2].solver
    /\ ArgsOf(1) = Args(PyInt(2), DefaultMaxIterations, PyNone)
    /\ calls[1].outcome = "returned"
    /\ calls[2].phase = "ITERATING"
    /\ Len(calls[2].updates) = 2
    /\ Len(calls[1].updates) = 5
====
